---- MODULE Spec2Model ----
(***************************************************************************)
(* The squelch engine of svxlink/svxlink/Squelch.h: the base class Squelch  *)
(* with its three fields (m_open, hangtime, hangtime_left), the handlers    *)
(* initialize, setHangtime, reset, audioIn and setOpen, and the squelchOpen *)
(* signal.  The detector (processSamples) is the pure virtual of the class: *)
(* it is modelled by what it can do to the engine, a sequence of setOpen    *)
(* calls and a return value.                                                *)
(***************************************************************************)
EXTENDS Integers, Sequences, FiniteSets, TLC

VARIABLES
  m_open,         \* Squelch::m_open
  hangtime,       \* Squelch::hangtime
  hangtime_left,  \* Squelch::hangtime_left
  log,            \* the steps of the last handler, each with the state before
                  \* and after it and the squelchOpen emissions it made
  ret,            \* the value the last handler returned ("void" if none)
  ret_count,      \* what processSamples returned to the last audioIn, as a
                  \* tuple of one number (empty after any other handler)
  hang,           \* history of the hang countdown last started (see Observe)
  notes,          \* history of the squelchOpen emissions (see Noted)
  table           \* the documented transition table, replayed (see TableStep)

vars == <<m_open, hangtime, hangtime_left, log, ret, ret_count, hang, notes,
          table>>

----------------------------------------------------------------------------
(* Bounds of the model *)

MaxHang == 2        \* largest argument of setHangtime
MaxNegHang == 5     \* setHangtime arguments go down to -MaxNegHang
MaxCount == 2       \* largest block length given to audioIn
MaxNegCount == 1    \* audioIn counts go down to -MaxNegCount (count is an int)
MaxCalls == 2       \* setOpen calls the detector makes in one processSamples
CfgSpan == 3        \* SQL_HANGTIME values are taken this far around each limit
MaxLeft == 8        \* cap of hangtime_left when negative counts raise it

\* The largest int
IntMax == 2147483647

HangArgs == (0 - MaxNegHang)..MaxHang
Counts == (0 - MaxNegCount)..MaxCount

----------------------------------------------------------------------------
(* The engine *)

\* The fields of a Squelch object
Fields(o, h, l) == [m_open |-> o, hangtime |-> h, hangtime_left |-> l]

\* Squelch::Squelch
Constructed == Fields(FALSE, 1, 0)

\* Squelch::isOpen
isOpen(s) == s.m_open \/ (s.hangtime_left > 0)

\* setHangtime without the lower limit
setHangtimeNoClamp(s, hang_samples) ==
  [st |-> [s EXCEPT !.hangtime = hang_samples], emit |-> <<>>]

\* setHangtime that also restarts a running countdown from the new value
setHangtimeRestarts(s, hang_samples) ==
  LET h == IF hang_samples >= 1 THEN hang_samples ELSE 1
  IN  [st   |-> [s EXCEPT !.hangtime = h,
                          !.hangtime_left = IF @ > 0 THEN h ELSE @],
       emit |-> <<>>]

\* Squelch::setHangtime
setHangtime(s, hang_samples) ==
  [st   |-> [s EXCEPT !.hangtime = IF hang_samples >= 1 THEN hang_samples ELSE 1],
   emit |-> <<>>]

\* reset that returns the object to the closed state
resetCloses(s) ==
  [st |-> [s EXCEPT !.m_open = FALSE, !.hangtime_left = 0], emit |-> <<>>]

\* Squelch::reset (the base class does nothing)
reset(s) == [st |-> s, emit |-> <<>>]

\* setOpen without the test of m_open before the open notification
setOpenAlwaysNotifies(s, is_open) ==
  IF is_open
    THEN [st |-> [s EXCEPT !.hangtime_left = 0, !.m_open = TRUE], emit |-> <<TRUE>>]
    ELSE IF s.m_open /\ (s.hangtime_left <= 0)
           THEN [st |-> [s EXCEPT !.hangtime_left = s.hangtime], emit |-> <<>>]
           ELSE [st |-> s, emit |-> <<>>]

\* setOpen(true) that leaves a running countdown running
setOpenKeepsCountdown(s, is_open) ==
  IF is_open
    THEN IF ~s.m_open
           THEN [st |-> [s EXCEPT !.m_open = TRUE], emit |-> <<TRUE>>]
           ELSE [st |-> s, emit |-> <<>>]
    ELSE IF s.m_open /\ (s.hangtime_left <= 0)
           THEN [st |-> [s EXCEPT !.hangtime_left = s.hangtime], emit |-> <<>>]
           ELSE [st |-> s, emit |-> <<>>]

\* setOpen(false) without the test of hangtime_left: every close restarts
\* the countdown
setOpenRestarts(s, is_open) ==
  IF is_open
    THEN LET s1 == [s EXCEPT !.hangtime_left = 0]
         IN  IF ~s1.m_open
               THEN [st |-> [s1 EXCEPT !.m_open = TRUE], emit |-> <<TRUE>>]
               ELSE [st |-> s1, emit |-> <<>>]
    ELSE IF s.m_open
           THEN [st |-> [s EXCEPT !.hangtime_left = s.hangtime], emit |-> <<>>]
           ELSE [st |-> s, emit |-> <<>>]

\* setOpen(false) without the test of m_open: a close of a closed squelch
\* starts a countdown
setOpenArmsClosed(s, is_open) ==
  IF is_open
    THEN LET s1 == [s EXCEPT !.hangtime_left = 0]
         IN  IF ~s1.m_open
               THEN [st |-> [s1 EXCEPT !.m_open = TRUE], emit |-> <<TRUE>>]
               ELSE [st |-> s1, emit |-> <<>>]
    ELSE IF s.hangtime_left <= 0
           THEN [st |-> [s EXCEPT !.hangtime_left = s.hangtime], emit |-> <<>>]
           ELSE [st |-> s, emit |-> <<>>]

\* setOpen(false) that closes at once, with no hang time
setOpenClosesAtOnce(s, is_open) ==
  IF is_open
    THEN LET s1 == [s EXCEPT !.hangtime_left = 0]
         IN  IF ~s1.m_open
               THEN [st |-> [s1 EXCEPT !.m_open = TRUE], emit |-> <<TRUE>>]
               ELSE [st |-> s1, emit |-> <<>>]
    ELSE IF s.m_open
           THEN [st |-> [s EXCEPT !.m_open = FALSE, !.hangtime_left = 0],
                 emit |-> <<FALSE>>]
           ELSE [st |-> s, emit |-> <<>>]

\* setOpen(true) that notifies the open again when it cancels a countdown
setOpenNotifiesReopen(s, is_open) ==
  IF is_open
    THEN IF ~s.m_open \/ s.hangtime_left > 0
           THEN [st |-> [s EXCEPT !.hangtime_left = 0, !.m_open = TRUE],
                 emit |-> <<TRUE>>]
           ELSE [st |-> [s EXCEPT !.hangtime_left = 0], emit |-> <<>>]
    ELSE IF s.m_open /\ (s.hangtime_left <= 0)
           THEN [st |-> [s EXCEPT !.hangtime_left = s.hangtime], emit |-> <<>>]
           ELSE [st |-> s, emit |-> <<>>]

\* Squelch::setOpen
setOpen(s, is_open) ==
  IF is_open
    THEN LET s1 == [s EXCEPT !.hangtime_left = 0]
         IN  IF ~s1.m_open
               THEN [st |-> [s1 EXCEPT !.m_open = TRUE], emit |-> <<TRUE>>]
               ELSE [st |-> s1, emit |-> <<>>]
    ELSE IF s.m_open /\ (s.hangtime_left <= 0)
           THEN [st |-> [s EXCEPT !.hangtime_left = s.hangtime], emit |-> <<>>]
           ELSE [st |-> s, emit |-> <<>>]

\* The countdown with a close notification for every block it is given
hangCountdownNotifiesEachBlock(s, count) ==
  IF s.hangtime_left > 0
    THEN LET s1 == [s EXCEPT !.hangtime_left = s.hangtime_left - count]
         IN  IF s1.hangtime_left <= 0
               THEN [st |-> [s1 EXCEPT !.m_open = FALSE], emit |-> <<FALSE>>]
               ELSE [st |-> s1, emit |-> <<FALSE>>]
    ELSE [st |-> s, emit |-> <<>>]

\* The countdown that expires below zero only
hangCountdownLate(s, count) ==
  IF s.hangtime_left > 0
    THEN LET s1 == [s EXCEPT !.hangtime_left = s.hangtime_left - count]
         IN  IF s1.hangtime_left < 0
               THEN [st |-> [s1 EXCEPT !.m_open = FALSE], emit |-> <<FALSE>>]
               ELSE [st |-> s1, emit |-> <<>>]
    ELSE [st |-> s, emit |-> <<>>]

\* The countdown that notifies the close and leaves m_open set
hangCountdownKeepsOpen(s, count) ==
  IF s.hangtime_left > 0
    THEN LET s1 == [s EXCEPT !.hangtime_left = s.hangtime_left - count]
         IN  IF s1.hangtime_left <= 0
               THEN [st |-> s1, emit |-> <<FALSE>>]
               ELSE [st |-> s1, emit |-> <<>>]
    ELSE [st |-> s, emit |-> <<>>]

\* The countdown that expires at zero exactly
hangCountdownExactZero(s, count) ==
  IF s.hangtime_left > 0
    THEN LET s1 == [s EXCEPT !.hangtime_left = s.hangtime_left - count]
         IN  IF s1.hangtime_left = 0
               THEN [st |-> [s1 EXCEPT !.m_open = FALSE], emit |-> <<FALSE>>]
               ELSE [st |-> s1, emit |-> <<>>]
    ELSE [st |-> s, emit |-> <<>>]

\* The countdown with the sign of the count reversed
hangCountdownAdds(s, count) ==
  IF s.hangtime_left > 0
    THEN LET s1 == [s EXCEPT !.hangtime_left = s.hangtime_left + count]
         IN  IF s1.hangtime_left <= 0
               THEN [st |-> [s1 EXCEPT !.m_open = FALSE], emit |-> <<FALSE>>]
               ELSE [st |-> s1, emit |-> <<>>]
    ELSE [st |-> s, emit |-> <<>>]

\* Squelch::audioIn after processSamples has returned: the hang countdown
hangCountdown(s, count) ==
  IF s.hangtime_left > 0
    THEN LET s1 == [s EXCEPT !.hangtime_left = s.hangtime_left - count]
         IN  IF s1.hangtime_left <= 0
               THEN [st |-> [s1 EXCEPT !.m_open = FALSE], emit |-> <<FALSE>>]
               ELSE [st |-> s1, emit |-> <<>>]
    ELSE [st |-> s, emit |-> <<>>]

\* setOpen that calls squelchOpen(true) before it sets m_open
atSquelchOpenInSetOpenEarly(s, is_open) ==
  IF is_open /\ ~s.m_open THEN <<[s EXCEPT !.hangtime_left = 0]>> ELSE <<>>

\* Squelch::setOpen: the object as the subscribers of squelchOpen find it when
\* setOpen calls the signal (one state for each call of the signal)
atSquelchOpenInSetOpen(s, is_open) ==
  IF is_open /\ ~s.m_open
    THEN <<[s EXCEPT !.hangtime_left = 0, !.m_open = TRUE]>>
    ELSE <<>>

\* Squelch::audioIn: the object as the subscribers of squelchOpen find it when
\* the countdown calls the signal
atSquelchOpenInAudioIn(s, count) ==
  IF s.hangtime_left > 0 /\ s.hangtime_left - count <= 0
    THEN <<[s EXCEPT !.hangtime_left = s.hangtime_left - count, !.m_open = FALSE]>>
    ELSE <<>>

\* The characters atoi reads as decimal digits, and their values
IsDigit(c) == c \in {"0", "1", "2", "3", "4", "5", "6", "7", "8", "9"}

DigitVal(c) ==
  CASE c = "0" -> 0 [] c = "1" -> 1 [] c = "2" -> 2 [] c = "3" -> 3
    [] c = "4" -> 4 [] c = "5" -> 5 [] c = "6" -> 6 [] c = "7" -> 7
    [] c = "8" -> 8 [] c = "9" -> 9

\* atoi: the leading white space is skipped, ...
RECURSIVE skipSpace(_)
skipSpace(str) ==
  IF str # <<>> /\ Head(str) = " " THEN skipSpace(Tail(str)) ELSE str

\* ... then the digits are accumulated up to the first character that is none
RECURSIVE atoiDigits(_, _)
atoiDigits(str, acc) ==
  IF str = <<>> \/ ~IsDigit(Head(str))
    THEN acc
    ELSE atoiDigits(Tail(str), 10 * acc + DigitVal(Head(str)))

\* atoi(value.c_str()): a string is a tuple of characters; a string with no
\* leading number gives 0
atoi(str) ==
  LET t == skipSpace(str)
  IN  IF t = <<>> THEN 0
      ELSE IF Head(t) = "-" THEN 0 - atoiDigits(Tail(t), 0)
      ELSE IF Head(t) = "+" THEN atoiDigits(Tail(t), 0)
      ELSE atoiDigits(t, 0)

\* x * 8 in a 32-bit int.  A product that does not fit is a signed overflow;
\* the builds of this code (g++ -O0 to -O3) keep its low 32 bits in two's
\* complement, which is what is computed here: 8 * x mod 2^32 is 8 times the
\* low 29 bits of x, read as a signed 29-bit number.
IntTimes8(x) ==
  LET r == x % (2 ^ 29)
      s == IF r >= 2 ^ 28 THEN r - 2 ^ 29 ELSE r
  IN  8 * s

\* No configuration entry: cfg.getValue returns false
NoEntry == [present |-> FALSE, value |-> <<>>]

\* An entry SQL_HANGTIME=value
Entry(str) == [present |-> TRUE, value |-> str]

\* Squelch::initialize, with c the outcome of cfg.getValue
initialize(s, c) ==
  LET sql_hangtime == IF c.present THEN IntTimes8(atoi(c.value)) ELSE 0
      r == setHangtime(s, sql_hangtime)
  IN  [st |-> r.st, emit |-> r.emit, ret |-> TRUE]

----------------------------------------------------------------------------
(* Handlers as sequences of steps.  A step is one of the operations above    *)
(* applied to the object; audioIn is the detector's setOpen calls (made      *)
(* inside processSamples) followed by the hang countdown.                    *)

Step(op, arg) == [op |-> op, arg |-> arg]

Apply(s, p) ==
  CASE p.op = "setOpen"     -> setOpen(s, p.arg)
    [] p.op = "countdown"   -> hangCountdown(s, p.arg)
    [] p.op = "setHangtime" -> setHangtime(s, p.arg)
    [] p.op = "reset"       -> reset(s)
    [] p.op = "initialize"  -> initialize(s, p.arg)

\* The object at each call of squelchOpen that step p makes in state s
Seen(s, p) ==
  CASE p.op = "setOpen"   -> atSquelchOpenInSetOpen(s, p.arg)
    [] p.op = "countdown" -> atSquelchOpenInAudioIn(s, p.arg)
    [] OTHER              -> <<>>

\* The record of the steps of a handler started in state s
RECURSIVE Run(_, _)
Run(s, steps) ==
  IF steps = <<>>
    THEN <<>>
    ELSE LET p == Head(steps)
             r == Apply(s, p)
         IN  <<[op |-> p.op, arg |-> p.arg, pre |-> s, post |-> r.st,
                emit |-> r.emit, seen |-> Seen(s, p)]>> \o Run(r.st, Tail(steps))

\* The state a record of steps ends in
Final(s, l) == IF l = <<>> THEN s ELSE l[Len(l)].post

\* audioIn that runs the hang countdown before processSamples
audioInCountsFirst(s, calls, count) ==
  Run(s, <<Step("countdown", count)>>
           \o [i \in 1..Len(calls) |-> Step("setOpen", calls[i])])

\* Squelch::audioIn: processSamples, where the detector calls setOpen with
\* the values of calls, then the hang countdown with the whole count
audioIn(s, calls, count) ==
  Run(s, [i \in 1..Len(calls) |-> Step("setOpen", calls[i])]
           \o <<Step("countdown", count)>>)

\* audioIn that returns the length of the block
audioInReturnsCount(processed, count) == count

\* Squelch::audioIn: the value returned, processed being what processSamples
\* returned for the block of count samples
audioInReturn(processed, count) == processed

\* All the emissions of a record of steps, in order
RECURSIVE Emitted(_)
Emitted(l) == IF l = <<>> THEN <<>> ELSE Head(l).emit \o Emitted(Tail(l))

----------------------------------------------------------------------------
(* Inputs *)

\* What the detector may call setOpen with during one processSamples
RECURSIVE BoolSeqs(_)
BoolSeqs(n) ==
  IF n = 0 THEN {<<>>}
  ELSE BoolSeqs(n - 1) \cup
       {Append(q, b) : q \in {x \in BoolSeqs(n - 1) : Len(x) = n - 1}, b \in BOOLEAN}

DetectorCalls == BoolSeqs(MaxCalls)

\* What processSamples may return for a block of count samples
Consumed(count) == IF count > 0 THEN 0..count ELSE {0}

\* The SQL_HANGTIME entries of the configuration
SmallEntries ==
  {NoEntry, Entry(<<"0">>), Entry(<<"1">>), Entry(<<"a", "b", "c">>)}


\* The decimal text of a number, as the configuration file holds it
DigitChar(d) ==
  CASE d = 0 -> "0" [] d = 1 -> "1" [] d = 2 -> "2" [] d = 3 -> "3"
    [] d = 4 -> "4" [] d = 5 -> "5" [] d = 6 -> "6" [] d = 7 -> "7"
    [] d = 8 -> "8" [] d = 9 -> "9"

RECURSIVE DecNat(_)
DecNat(n) ==
  IF n < 10 THEN <<DigitChar(n)>>
  ELSE Append(DecNat(n \div 10), DigitChar(n % 10))

Dec(n) == IF n < 0 THEN <<"-">> \o DecNat(0 - n) ELSE DecNat(n)

\* x + d kept within what an int holds (the smallest int is left out: atoi
\* reads its text through a number no int holds)
Shift(x, d) ==
  IF d > 0 /\ x > IntMax - d THEN IntMax
  ELSE IF d < 0 /\ x < (0 - IntMax) - d THEN 0 - IntMax
  ELSE x + d

\* The numbers within CfgSpan of x
Around(x) == {Shift(x, d) : d \in (0 - CfgSpan)..CfgSpan}

\* Milliseconds around the limits of the product by 8: 0, 100 (the documented
\* example), 2^28 (8 * 2^28 is the first product no int holds), 2^29, the
\* largest int, and their negatives
WideInts ==
  Around(0) \cup Around(100) \cup Around(2 ^ 28) \cup Around(2 ^ 29)
    \cup Around(IntMax) \cup Around(0 - 2 ^ 28) \cup Around(0 - IntMax)

\* The SQL_HANGTIME entries initialize is checked on
WideEntries ==
  {NoEntry, Entry(<<>>), Entry(<<"a", "b", "c">>)}
    \cup {Entry(Dec(v)) : v \in WideInts}

----------------------------------------------------------------------------
(* History of the hang countdown.  It is kept beside the object and read by  *)
(* nothing in it: it remembers, for the countdown that the last effective    *)
(* setOpen(false) started, the hangtime it started from and what audioIn     *)
(* has been given since.                                                     *)

NoHang ==
  [armed     |-> FALSE,  \* setOpen(false) started a countdown (hangtime_left =
                         \* hangtime) and setOpen(true) has not been called since
   h         |-> 0,      \* hangtime when it started
   cum       |-> 0,      \* sum of the counts audioIn subtracted since, up to h
   blocks    |-> 0,      \* audioIn calls with a count >= 1 since, up to h
                         \* (kept under SpecFed only, 0 under the others)
   closes    |-> 0,      \* squelchOpen(false) emissions since, up to 2
   nonneg    |-> TRUE,   \* every count since was >= 0
   retuned   |-> FALSE,  \* hangtime was changed while it was running
   reclosed  |-> FALSE,  \* setOpen(false) was called again while it was running
   cancelled |-> FALSE,  \* setOpen(true) was called while a countdown was
                         \* running, and setOpen(false) not since
   lateClose |-> FALSE]  \* squelchOpen(false) was emitted while cancelled

Min(a, b) == IF a <= b THEN a ELSE b

\* The number of squelchOpen(false) among the emissions em
Closes(em) == Cardinality({i \in 1..Len(em) : em[i] = FALSE})

\* The history after step e of a handler
Observe(g, e) ==
  LET g1 == [g EXCEPT !.closes = Min(2, @ + Closes(e.emit)),
                      !.lateClose = @ \/ (g.cancelled /\ Closes(e.emit) > 0)]
  IN  CASE e.op = "setOpen" /\ e.arg ->
             [NoHang EXCEPT !.cancelled = g.cancelled \/ e.pre.hangtime_left > 0,
                            !.lateClose = g1.lateClose]
        [] e.op = "setOpen" /\ ~e.arg ->
             IF e.pre.m_open /\ e.pre.hangtime_left <= 0
               THEN [NoHang EXCEPT !.armed = TRUE, !.h = e.pre.hangtime,
                                   !.lateClose = g1.lateClose]
               ELSE [g1 EXCEPT !.cancelled = FALSE,
                               !.reclosed = @ \/ (g.armed /\ e.pre.hangtime_left > 0)]
        [] e.op = "countdown" ->
             IF ~g.armed THEN g1
             ELSE IF e.arg < 0 THEN [g1 EXCEPT !.nonneg = FALSE]
             ELSE [g1 EXCEPT !.cum = Min(g.h, @ + e.arg),
                             !.blocks = IF e.arg >= 1 THEN Min(g.h, @ + 1) ELSE @]
        [] e.op \in {"setHangtime", "initialize"} ->
             [g1 EXCEPT !.retuned = @ \/ (g.armed /\ e.pre.hangtime_left > 0
                                           /\ e.post.hangtime # e.pre.hangtime)]
        [] OTHER -> g1

RECURSIVE ObserveAll(_, _)
ObserveAll(g, l) ==
  IF l = <<>> THEN g ELSE ObserveAll(Observe(g, Head(l)), Tail(l))

----------------------------------------------------------------------------
(* History of the notifications: what the subscribers of squelchOpen have   *)
(* received since the construction.                                         *)

NoNotes ==
  [last       |-> <<>>,   \* the last value emitted, as a tuple; empty before
                          \* the first emission
   diff       |-> 0,      \* opens emitted minus closes emitted, kept within
                          \* -2..3
   alternates |-> TRUE,   \* the first emission was an open and every later one
                          \* differed from the one before it
   balanced   |-> TRUE]   \* after every step so far, diff was 1 if isOpen()
                          \* and 0 if not

\* The history after the emission of b
NotedValue(n, b) ==
  [n EXCEPT !.last = <<b>>,
            !.diff = IF b THEN Min(3, @ + 1) ELSE 0 - Min(2, 1 - @),
            !.alternates = @ /\ (IF n.last = <<>> THEN b ELSE n.last[1] # b)]

RECURSIVE NotedValues(_, _)
NotedValues(n, em) ==
  IF em = <<>> THEN n ELSE NotedValues(NotedValue(n, Head(em)), Tail(em))

\* The history after the steps l of a handler
RECURSIVE Noted(_, _)
Noted(n, l) ==
  IF l = <<>> THEN n
  ELSE LET n1 == NotedValues(n, Head(l).emit)
       IN  Noted([n1 EXCEPT !.balanced =
                     @ /\ (n1.diff = IF isOpen(Head(l).post) THEN 1 ELSE 0)],
                 Tail(l))

----------------------------------------------------------------------------
(* The transition table of the design document, replayed beside the object: *)
(* Closed, ActiveOpen and HangingOpen with its own remaining countdown.      *)

TableInit == [state |-> "Closed", rem |-> 0]

\* One step of the table; h is the configured hangtime
TableStep(t, op, arg, h) ==
  CASE op = "setOpen" /\ arg -> [state |-> "ActiveOpen", rem |-> 0]
    [] op = "setOpen" /\ ~arg ->
         IF t.state = "ActiveOpen" THEN [state |-> "HangingOpen", rem |-> h] ELSE t
    [] op = "countdown" ->
         IF t.state = "HangingOpen"
           THEN IF t.rem - arg <= 0 THEN [state |-> "Closed", rem |-> 0]
                                    ELSE [t EXCEPT !.rem = t.rem - arg]
           ELSE t
    [] OTHER -> t

RECURSIVE TableRun(_, _)
TableRun(t, l) ==
  IF l = <<>> THEN t
  ELSE TableRun(TableStep(t, Head(l).op, Head(l).arg, Head(l).pre.hangtime), Tail(l))

----------------------------------------------------------------------------
(* The state machine *)

Self == Fields(m_open, hangtime, hangtime_left)

\* The handler's record l, its return value r and what processSamples
\* returned in it become the new state, and g the history of the countdown
Became(l, r, processed, g) ==
  LET s == Final(Self, l)
  IN  /\ m_open' = s.m_open
      /\ hangtime' = s.hangtime
      /\ hangtime_left' = s.hangtime_left
      /\ log' = l
      /\ ret' = r
      /\ ret_count' = processed
      /\ hang' = g
      /\ notes' = Noted(notes, l)
      /\ table' = TableRun(table, l)

Becomes(l, r, processed) ==
  Became(l, r, processed, [ObserveAll(hang, l) EXCEPT !.blocks = 0])

Init ==
  /\ m_open = Constructed.m_open
  /\ hangtime = Constructed.hangtime
  /\ hangtime_left = Constructed.hangtime_left
  /\ log = <<>>
  /\ ret = "void"
  /\ ret_count = <<>>
  /\ hang = NoHang
  /\ notes = NoNotes
  /\ table = TableInit

Initialize ==
  \E c \in SmallEntries :
    Becomes(Run(Self, <<Step("initialize", c)>>), initialize(Self, c).ret, <<>>)

SetHangtime ==
  \E n \in HangArgs :
    Becomes(Run(Self, <<Step("setHangtime", n)>>), "void", <<>>)

Reset == Becomes(Run(Self, <<Step("reset", "void")>>), "void", <<>>)

SetOpen ==
  \E b \in BOOLEAN :
    Becomes(Run(Self, <<Step("setOpen", b)>>), "void", <<>>)

\* audioIn with a block whose length is in lengths
AudioInOf(lengths) ==
  \E count \in lengths, calls \in DetectorCalls :
    \E processed \in Consumed(count) :
      LET l == audioIn(Self, calls, count)
      IN  /\ Final(Self, l).hangtime_left <= MaxLeft
          /\ Becomes(l, audioInReturn(processed, count), <<processed>>)

AudioIn == AudioInOf(Counts)

Next == Initialize \/ SetHangtime \/ Reset \/ SetOpen \/ AudioIn

Spec == Init /\ [][Next]_vars

\* The receiver while audio is fed to it: the detector's setOpen, setHangtime
\* and audioIn with blocks of 0 samples or more, of which the detector
\* consumes all; the blocks of a countdown are counted
BecomesFed(l, r, processed) == Became(l, r, processed, ObserveAll(hang, l))

FedSetOpen ==
  \E b \in BOOLEAN :
    BecomesFed(Run(Self, <<Step("setOpen", b)>>), "void", <<>>)

FedSetHangtime ==
  \E n \in 0..MaxHang :
    BecomesFed(Run(Self, <<Step("setHangtime", n)>>), "void", <<>>)

FedAudioOf(lengths) ==
  \E count \in lengths, calls \in DetectorCalls :
    BecomesFed(audioIn(Self, calls, count), audioInReturn(count, count), <<count>>)

FedAudioIn == FedAudioOf(0..MaxCount)

\* audioIn called with a block of at least one sample
FedBlock == FedAudioOf(1..MaxCount)

NextFed == FedSetOpen \/ FedSetHangtime \/ FedAudioIn

\* audioIn keeps being called with blocks of at least one sample
SpecFed == Init /\ [][NextFed]_vars /\ WF_vars(FedBlock)

\* initialize alone, on the wide range of configuration entries
InitializeWide ==
  \E c \in WideEntries :
    Becomes(Run(Self, <<Step("initialize", c)>>), initialize(Self, c).ret, <<>>)

SpecCfg == Init /\ [][InitializeWide]_vars
----------------------------------------------------------------------------
(* Properties *)

\* The steps of the last handler
Steps == {log[i] : i \in 1..Len(log)}

\* Every state the object was in during the last handler, and is in now
Visited == {Self} \cup {e.pre : e \in Steps} \cup {e.post : e \in Steps}

\* The last handler was audioIn(count) with a detector that called nothing
PlainBlock(count) ==
  Len(log) = 1 /\ log[1].op = "countdown" /\ log[1].arg = count

\* C1: in every step of every handler (setOpen, the countdown of audioIn,
\* setHangtime, reset, initialize) squelchOpen is emitted if and only if the
\* step changes the value of isOpen(), once, with the new value; a step that
\* only clears or starts the countdown while open emits nothing.
C1_NotifiesExactlyOnChange ==
  \A e \in Steps :
    e.emit = IF isOpen(e.post) # isOpen(e.pre) THEN <<isOpen(e.post)>> ELSE <<>>

\* One audioIn in which a running countdown was cleared (nothing emitted), a
\* new one started (nothing emitted) and expired (one close emitted)
C1_Witness ==
  /\ Len(log) = 3
  /\ log[1].op = "setOpen" /\ log[1].arg /\ log[1].pre.hangtime_left > 0
  /\ log[1].emit = <<>>
  /\ log[2].op = "setOpen" /\ ~log[2].arg /\ log[2].post.hangtime_left > 0
  /\ log[2].emit = <<>>
  /\ log[3].op = "countdown" /\ log[3].emit = <<FALSE>> /\ ~isOpen(Self)

\* C2: a setOpen(false) given to an open squelch with no countdown running
\* leaves isOpen() true and emits nothing; from then on, as long as
\* setOpen(true) is not called and the counts are >= 0, isOpen() is true
\* after an audioIn exactly when the counts subtracted since (cum; the block
\* during which the detector called setOpen(false) is the first of them) stay
\* below the hangtime h the countdown started from, and one close has been
\* emitted exactly when they have reached it.
C2_CloseIsDeferred ==
  /\ \A e \in Steps :
       e.op = "setOpen" /\ ~e.arg /\ e.pre.m_open /\ e.pre.hangtime_left <= 0
         => isOpen(e.post) /\ e.emit = <<>>
  /\ hang.armed /\ hang.nonneg =>
       /\ isOpen(Self) <=> hang.cum < hang.h
       /\ hang.closes = IF hang.cum >= hang.h THEN 1 ELSE 0

\* A countdown of 2 samples closed by the second of two blocks (the first
\* left it open, or the squelch would have been closed before this one)
C2_Witness ==
  /\ hang.armed /\ hang.nonneg /\ hang.h = 2 /\ hang.cum = 2
  /\ PlainBlock(1) /\ log[1].pre.hangtime_left = 1 /\ isOpen(log[1].pre)
  /\ log[1].emit = <<FALSE>> /\ hang.closes = 1 /\ ~isOpen(Self)

\* C3: setOpen(true) during a countdown clears it, emits nothing and leaves
\* isOpen() true; until the next setOpen(false) the squelch stays open and no
\* audioIn, whatever its count, emits a close.
C3_ReopenCancelsClose ==
  /\ \A e \in Steps :
       e.op = "setOpen" /\ e.arg /\ e.pre.hangtime_left > 0
         => e.post.hangtime_left = 0 /\ e.emit = <<>> /\ isOpen(e.post)
  /\ hang.cancelled => isOpen(Self) /\ hangtime_left = 0
  /\ ~hang.lateClose

\* After a cancelled countdown, a block of the largest count left it open
C3_Witness ==
  /\ hang.cancelled /\ PlainBlock(MaxCount) /\ log[1].emit = <<>>
  /\ isOpen(Self)

\* C4 as stated: the object is always Closed (m_open false, hangtime_left 0),
\* ActiveOpen (m_open true, hangtime_left 0) or HangingOpen (m_open true,
\* hangtime_left > 0), so hangtime_left is never negative.
C4_ThreeStatesAsStated ==
  \A s \in Visited :
    \/ ~s.m_open /\ s.hangtime_left = 0
    \/ s.m_open /\ s.hangtime_left = 0
    \/ s.m_open /\ s.hangtime_left > 0

\* C4, amended: the object is always Closed (m_open false, hangtime_left <=
\* 0), ActiveOpen (m_open true, hangtime_left 0) or HangingOpen (m_open
\* true, hangtime_left > 0).  hangtime_left is never positive while m_open is
\* false and never negative while it is true; the expiry in audioIn leaves
\* it at what the subtraction gave, negative when a count >= 0 exceeded
\* what was left.
C4_ThreeStates ==
  /\ \A s \in Visited :
       \/ ~s.m_open /\ s.hangtime_left <= 0
       \/ s.m_open /\ s.hangtime_left = 0
       \/ s.m_open /\ s.hangtime_left > 0
  /\ \A e \in Steps :
       e.op = "countdown" /\ e.pre.hangtime_left > 0 /\ e.arg >= e.pre.hangtime_left
         => ~e.post.m_open /\ e.post.hangtime_left = e.pre.hangtime_left - e.arg

\* Closed after an expiry whose block was longer than what was left
C4_Witness ==
  /\ ~m_open /\ hangtime_left < 0
  /\ PlainBlock(2) /\ log[1].pre.hangtime_left = 1 /\ log[1].emit = <<FALSE>>

\* C5: isOpen() is the stored flag m_open in every state, hangtime_left > 0
\* never holds while m_open is false, and after every handler isOpen() is
\* what the documented transition table gives for the same calls.
C5_IsOpenIsReportedOpen ==
  /\ \A s \in Visited :
       /\ isOpen(s) = s.m_open
       /\ ~(s.hangtime_left > 0 /\ ~s.m_open)
  /\ isOpen(Self) = (table.state # "Closed")
  /\ table.state = "HangingOpen" <=> hangtime_left > 0
  /\ table.state = "HangingOpen" => table.rem = hangtime_left

\* The table and the object both closed by an expiry, after both were
\* HangingOpen
C5_Witness ==
  /\ table.state = "Closed" /\ ~isOpen(Self)
  /\ Len(log) = 2 /\ log[1].op = "setOpen" /\ ~log[1].arg
  /\ isOpen(log[1].post) /\ log[1].post.hangtime_left > 0
  /\ log[2].op = "countdown" /\ log[2].emit = <<FALSE>>

Max(a, b) == IF a >= b THEN a ELSE b

\* C6: hangtime >= 1 in every state; it is 1 after construction; and
\* setHangtime(n) sets it to max(n, 1) for every n, never refusing.
C6_HangtimeAtLeastOne ==
  /\ \A s \in Visited : s.hangtime >= 1
  /\ log = <<>> => hangtime = 1
  /\ \A e \in Steps :
       e.op = "setHangtime" => e.post.hangtime = Max(e.arg, 1)
  /\ \A n \in HangArgs : setHangtime(Self, n).st.hangtime = Max(n, 1)

\* setHangtime(-5) brought a hangtime of 2 to 1
C6_Witness ==
  /\ Len(log) = 1 /\ log[1].op = "setHangtime" /\ log[1].arg = 0 - MaxNegHang
  /\ log[1].pre.hangtime = 2 /\ hangtime = 1

\* C7: setOpen(true) on a closed squelch opens it with one open notification;
\* on an open one it emits nothing and leaves m_open true and hangtime_left
\* 0; a second setOpen(true) changes nothing and emits nothing.
C7_OpenIsIdempotent ==
  \A e \in Steps :
    e.op = "setOpen" /\ e.arg =>
      /\ e.post.m_open /\ e.post.hangtime_left = 0
      /\ e.post.hangtime = e.pre.hangtime
      /\ e.emit = IF e.pre.m_open THEN <<>> ELSE <<TRUE>>
      /\ setOpen(e.post, TRUE) = [st |-> e.post, emit |-> <<>>]

\* The detector opened a closed squelch twice in a block: one notification
C7_Witness ==
  /\ Len(log) = 3
  /\ log[1].op = "setOpen" /\ log[1].arg /\ ~isOpen(log[1].pre)
  /\ log[1].emit = <<TRUE>>
  /\ log[2].op = "setOpen" /\ log[2].arg /\ log[2].emit = <<>>
  /\ log[2].post = log[1].post
  /\ Emitted(log) = <<TRUE>> /\ isOpen(Self)

\* The number an entry holds, if it is the decimal text of one
IsNumber(c) == c.present /\ \E v \in WideInts : c.value = Dec(v)
NumberOf(c) == CHOOSE v \in WideInts : c.value = Dec(v)

\* C8: after initialize the hangtime is max(8 * v, 1) when SQL_HANGTIME holds
\* the number v, whatever int v is, and 1 when the entry is missing or holds
\* no number; initialize returns true.  (hangtime = 8 * v is stated through
\* the quotient and the remainder of hangtime, 8 * v itself being a number
\* no int need hold.)
C8_InitializeScalesByEight ==
  Len(log) = 1 /\ log[1].op = "initialize" =>
    /\ ret = TRUE
    /\ IF IsNumber(log[1].arg)
         THEN LET v == NumberOf(log[1].arg)
              IN  IF v >= 1 THEN hangtime % 8 = 0 /\ hangtime \div 8 = v
                            ELSE hangtime = 1
         ELSE hangtime = 1

\* What initialize does give: max(8 * v, 1) for the v whose product by 8 an
\* int holds, and true in every case
InitializeScalesInRange ==
  Len(log) = 1 /\ log[1].op = "initialize" =>
    /\ ret = TRUE
    /\ IF IsNumber(log[1].arg)
         THEN LET v == NumberOf(log[1].arg)
              IN  IF v >= 1 /\ v <= IntMax \div 8 THEN hangtime = 8 * v
                  ELSE IF v <= 0 /\ v >= 0 - (2 ^ 28) THEN hangtime = 1
                  ELSE hangtime = Max(IntTimes8(v), 1)
         ELSE hangtime = 1

\* C9: setOpen(false) during a countdown, or on a closed squelch, changes no
\* field and emits nothing; a countdown during which it was repeated still
\* closes at the block at which the counts reach the hangtime it started
\* from (counts >= 0, no setOpen(true)).
C9_RepeatedCloseIsNoOp ==
  /\ \A e \in Steps :
       e.op = "setOpen" /\ ~e.arg /\ (e.pre.hangtime_left > 0 \/ ~e.pre.m_open)
         => e.post = e.pre /\ e.emit = <<>>
  /\ hang.armed /\ hang.nonneg /\ hang.reclosed =>
       /\ isOpen(Self) <=> hang.cum < hang.h
       /\ hang.closes = IF hang.cum >= hang.h THEN 1 ELSE 0

\* A countdown of 2 samples, setOpen(false) repeated after its first sample,
\* closed by the second
C9_Witness ==
  /\ hang.armed /\ hang.nonneg /\ hang.reclosed /\ hang.h = 2 /\ hang.cum = 2
  /\ Len(log) = 2 /\ log[1].op = "setOpen" /\ ~log[1].arg
  /\ log[1].pre.hangtime_left = 1 /\ log[1].pre.hangtime = 2
  /\ log[2].op = "countdown" /\ log[2].arg = 1 /\ log[2].emit = <<FALSE>>

\* C10: setHangtime changes hangtime only and emits nothing; a countdown
\* running when it is called still expires when the counts reach the
\* hangtime it started from (counts >= 0, no setOpen(true)); a countdown
\* started later starts from the value then configured.
C10_SetHangtimeFrame ==
  /\ \A e \in Steps :
       e.op = "setHangtime"
         => /\ e.post = [e.pre EXCEPT !.hangtime = e.post.hangtime]
            /\ e.emit = <<>>
  /\ hang.armed /\ hang.nonneg /\ hang.retuned =>
       /\ isOpen(Self) <=> hang.cum < hang.h
       /\ hang.closes = IF hang.cum >= hang.h THEN 1 ELSE 0
  /\ \A e \in Steps :
       e.op = "setOpen" /\ ~e.arg /\ e.pre.m_open /\ e.pre.hangtime_left <= 0
         => e.post.hangtime_left = e.pre.hangtime

\* A countdown of 2 samples, hangtime set to 1 while it ran: still open
\* after 1 sample
C10_Witness ==
  /\ hang.armed /\ hang.nonneg /\ hang.retuned /\ hang.h = 2 /\ hangtime = 1
  /\ hang.cum = 1 /\ PlainBlock(1) /\ isOpen(Self) /\ hangtime_left = 1

\* The last handler was audioIn
WasAudioIn == \E e \in Steps : e.op = "countdown"

\* C11: audioIn returns what processSamples returned, and a running
\* countdown is reduced by the whole count of the block, also when
\* processSamples returned less.
C11_ReturnsConsumedDebitsCount ==
  /\ WasAudioIn <=> ret_count # <<>>
  /\ WasAudioIn => ret = ret_count[1]
  /\ \A e \in Steps :
       e.op = "countdown" /\ e.pre.hangtime_left > 0
         => e.post.hangtime_left = e.pre.hangtime_left - e.arg

\* A block of 2 samples of which the detector consumed 1: the countdown went
\* from 8 to 6 and audioIn returned 1
C11_Witness ==
  /\ PlainBlock(2) /\ ret_count = <<1>> /\ ret = 1
  /\ log[1].pre.hangtime_left = 8 /\ hangtime_left = 6

\* The values emitted by step e
Values(e) == {e.emit[k] : k \in 1..Len(e.emit)}

\* C12: an open notification is emitted by setOpen(true) only (called directly
\* or by the detector inside audioIn), a close notification by the countdown
\* of audioIn only, when the countdown expires; setOpen(false) emits nothing
\* and leaves isOpen() as it was.
C12_NotificationsFromFixedPlaces ==
  \A e \in Steps :
    /\ TRUE \in Values(e) => e.op = "setOpen" /\ e.arg
    /\ FALSE \in Values(e) =>
         /\ e.op = "countdown"
         /\ e.pre.hangtime_left > 0 /\ e.post.hangtime_left <= 0
    /\ e.op = "setOpen" /\ ~e.arg =>
         e.emit = <<>> /\ isOpen(e.post) = isOpen(e.pre)

\* One audioIn on a closed squelch: the detector's setOpen(true) emitted the
\* open, its setOpen(false) nothing, the countdown the close
C12_Witness ==
  /\ Len(log) = 3
  /\ log[1].op = "setOpen" /\ log[1].arg /\ log[1].emit = <<TRUE>>
  /\ log[2].op = "setOpen" /\ ~log[2].arg /\ log[2].emit = <<>>
  /\ isOpen(log[2].pre) /\ isOpen(log[2].post)
  /\ log[3].op = "countdown" /\ log[3].emit = <<FALSE>>

\* C14: reset changes no field, emits nothing and leaves isOpen() as it was;
\* a countdown running when it is called goes on from the same value, which
\* is what is left of the hangtime it started from (counts >= 0).
C14_ResetChangesNothing ==
  /\ \A e \in Steps :
       e.op = "reset" =>
         /\ e.post = e.pre /\ e.emit = <<>>
         /\ isOpen(e.post) = isOpen(e.pre)
         /\ Self = e.pre
  /\ \A e \in Steps :
       e.op = "reset" /\ hang.armed /\ hang.nonneg /\ e.pre.hangtime_left > 0
         => hangtime_left = hang.h - hang.cum

\* reset during a countdown of 8 samples of which 2 were gone
C14_Witness ==
  /\ Len(log) = 1 /\ log[1].op = "reset"
  /\ hang.armed /\ hang.nonneg /\ hang.h = 8 /\ hang.cum = 2
  /\ log[1].pre.hangtime_left = 6 /\ hangtime_left = 6 /\ isOpen(Self)

\* Step i of the last handler is a setOpen(false) on an open squelch with no
\* countdown running, and no setOpen(true) follows it in the handler
StartsCountdownAt(i) ==
  /\ log[i].op = "setOpen" /\ ~log[i].arg
  /\ log[i].pre.m_open /\ log[i].pre.hangtime_left <= 0
  /\ \A j \in (i + 1)..Len(log) : ~(log[j].op = "setOpen" /\ log[j].arg)

\* C15: when the detector starts a countdown inside audioIn(samples, count)
\* (setOpen(false) on an open squelch with no countdown running, and no
\* setOpen(true) after it), audioIn returns with that count already taken
\* from the fresh countdown: hangtime_left is hangtime - count, and if count
\* >= hangtime the close is emitted and isOpen() is false when the call
\* returns, otherwise the squelch is still open and nothing was emitted.
C15_SameBlockDebitsFreshCountdown ==
  \A i \in 1..Len(log) :
    WasAudioIn /\ StartsCountdownAt(i) =>
      LET h == log[i].pre.hangtime
          c == CHOOSE e \in Steps : e.op = "countdown"
      IN  /\ hangtime_left = h - c.arg
          /\ c.arg >= h => ~isOpen(Self) /\ c.emit = <<FALSE>>
          /\ c.arg < h => isOpen(Self) /\ c.emit = <<>>

\* With the hangtime of the constructor, 1, a block of 1 sample in which the
\* detector reported closed ended with the squelch closed
C15_Witness ==
  /\ Len(log) = 2 /\ StartsCountdownAt(1)
  /\ log[1].pre.hangtime = 1 /\ isOpen(log[1].post)
  /\ log[2].op = "countdown" /\ log[2].arg = 1 /\ log[2].emit = <<FALSE>>
  /\ ~isOpen(Self)

\* C16: whenever squelchOpen is called, in setOpen(true) or at the expiry in
\* audioIn, the object already has the state the step leaves it in, and
\* isOpen() on it is the value the signal carries (for a close,
\* hangtime_left <= 0 and m_open false).
C16_StateUpdatedBeforeNotification ==
  \A e \in Steps :
    /\ Len(e.seen) = Len(e.emit)
    /\ \A k \in 1..Len(e.emit) :
         /\ isOpen(e.seen[k]) = e.emit[k]
         /\ e.seen[k] = e.post
         /\ ~e.emit[k] => e.seen[k].hangtime_left <= 0 /\ ~e.seen[k].m_open

\* One audioIn with an open notification, seen with isOpen() true, and a
\* close notification, seen with isOpen() false
C16_Witness ==
  /\ Len(log) = 3
  /\ log[1].emit = <<TRUE>> /\ Len(log[1].seen) = 1 /\ isOpen(log[1].seen[1])
  /\ log[3].emit = <<FALSE>> /\ Len(log[3].seen) = 1 /\ ~isOpen(log[3].seen[1])
  /\ log[3].seen[1].hangtime_left < 0

\* C17: from the construction on, the notifications alternate open, close,
\* open, ..., the first being an open, and after every step the number of
\* opens emitted less the number of closes emitted is 1 if isOpen() and 0
\* if not.
C17_NotificationsAlternate ==
  /\ notes.alternates
  /\ notes.balanced
  /\ notes.diff = IF isOpen(Self) THEN 1 ELSE 0
  /\ notes.last = <<>> => ~isOpen(Self)
  /\ notes.last # <<>> => notes.last[1] = isOpen(Self)

\* A squelch closed by an earlier expiry (hangtime_left < 0) was opened and
\* closed again within one audioIn
C17_Witness ==
  /\ Len(log) = 3 /\ ~log[1].pre.m_open /\ log[1].pre.hangtime_left < 0
  /\ Emitted(log) = <<TRUE, FALSE>>
  /\ notes.last = <<FALSE>> /\ notes.diff = 0

\* C18: no step other than a countdown with a negative count raises a
\* positive hangtime_left; a positive hangtime_left belongs to a countdown
\* that setOpen(false) started, and while the counts since were >= 0 it is
\* at most the hangtime the countdown started from, and above the hangtime
\* now configured only if that was lowered since.
C18_CountdownNeverGrows ==
  /\ \A e \in Steps :
       e.pre.hangtime_left > 0 /\ ~(e.op = "countdown" /\ e.arg < 0)
         => e.post.hangtime_left <= e.pre.hangtime_left
  /\ \A e \in Steps :
       e.pre.hangtime_left <= 0 /\ e.post.hangtime_left > 0
         => e.op = "setOpen" /\ ~e.arg /\ e.post.hangtime_left = e.pre.hangtime
  /\ hangtime_left > 0 => hang.armed
  /\ hang.armed /\ hang.nonneg /\ hangtime_left > 0 =>
       /\ hangtime_left <= hang.h
       /\ hangtime_left > hangtime => hang.retuned /\ hangtime < hang.h

\* A countdown of 8 samples with 6 left, the hangtime lowered to 1 meanwhile
C18_Witness ==
  /\ hang.armed /\ hang.nonneg /\ hang.retuned /\ hang.h = 8
  /\ hangtime_left = 6 /\ hangtime = 1 /\ PlainBlock(1)

\* The last handler called setOpen(true), or gave audioIn a negative count
Disturbed ==
  \E e \in Steps : (e.op = "setOpen" /\ e.arg) \/ (e.op = "countdown" /\ e.arg < 0)

\* What C13 says of every state: a block of no samples changes nothing and
\* emits nothing, and a countdown that has seen as many blocks of at least
\* one sample as the hangtime it started from (no negative count, no
\* setOpen(true)) has closed the squelch with one close notification.
C13_ExpiryBound ==
  /\ \A e \in Steps :
       e.op = "countdown" /\ e.arg = 0 => e.post = e.pre /\ e.emit = <<>>
  /\ hang.armed /\ hang.nonneg /\ hang.blocks >= hang.h =>
       ~isOpen(Self) /\ hangtime_left <= 0 /\ hang.closes = 1
  /\ hang.armed /\ hang.nonneg /\ ~isOpen(Self) => hang.closes = 1

\* C13: while audio keeps being fed in blocks of at least one sample, a
\* running countdown leads to the Closed state, unless setOpen(true) is
\* called or a negative count given; it closes with exactly one close
\* notification, after at most as many such blocks as the hangtime it
\* started from, and blocks of no samples neither advance nor close it.
C13_HangExpires ==
  /\ []C13_ExpiryBound
  /\ (hangtime_left > 0) ~> (~isOpen(Self) \/ Disturbed)

\* A countdown of 2 samples closed by the second of two blocks of 1 sample
C13_Witness ==
  /\ hang.armed /\ hang.nonneg /\ hang.h = 2 /\ hang.blocks = 2
  /\ PlainBlock(1) /\ log[1].pre.hangtime_left = 1
  /\ ~isOpen(Self) /\ hang.closes = 1 /\ ~Disturbed

====
